---------------------------- MODULE Spec2Model ----------------------------
(***************************************************************************)
(* The binomial-tree pricer of notebooks/binomial_tree.ipynb               *)
(* (american_option_binomial) and the notebook cells around it.            *)
(*                                                                         *)
(* Numbers.  The pricer computes in IEEE doubles.  The model computes the  *)
(* same expressions on extended rationals [n, d]: d > 0 is the finite      *)
(* value n/d in lowest terms, [1,0] is +Infinity, [-1,0] is -Infinity and  *)
(* [0,0] is NaN, with the IEEE rules for division by zero, Inf-Inf, 0*Inf  *)
(* and NaN propagation.  Rates and volatilities are measured in units of   *)
(* ln 2, so that exp of a grid value is an exact power of two, and the     *)
(* maturities offered are those for which sqrt(T/N) is rational.           *)
(***************************************************************************)
EXTENDS Integers, Sequences, FiniteSets, TLC

\* ------------------------------------------------------------------ bounds
MaxN == 2
MaxT == 4
MaxSpot == 4
MaxStrike == 2
MaxRate == 1

\* volatilities offered, in units of ln 2 (u = 2^sigma for dt = 1)
SigmaGrid == {0, 1, 2}

\* ------------------------------------------------- extended rational numbers
Abs(x) == IF x < 0 THEN -x ELSE x

Sgn(x) == IF x > 0 THEN 1 ELSE IF x < 0 THEN -1 ELSE 0

RECURSIVE GCD(_, _)
GCD(a, b) == IF b = 0 THEN a ELSE GCD(b, a % b)

Rat(n, d) == [n |-> n, d |-> d]

NaN == Rat(0, 0)

PosInf == Rat(1, 0)

Zero == Rat(0, 1)

One == Rat(1, 1)

FromInt(k) == Rat(k, 1)

IsNaN(x) == x.d = 0 /\ x.n = 0

IsFinite(x) == x.d > 0

\* n/d with d >= 0, brought to lowest terms; d = 0 gives the signed infinity or NaN
Norm(n, d) ==
    IF d = 0 THEN Rat(Sgn(n), 0)
    ELSE LET g == GCD(Abs(n), d) IN Rat(n \div g, d \div g)

Neg(x) == Rat(-x.n, x.d)

Add(x, y) ==
    IF x.d = 0 /\ y.d = 0
    THEN IF x.n = y.n THEN x ELSE NaN
    ELSE IF x.d = 0 THEN x
    ELSE IF y.d = 0 THEN y
    ELSE LET g == GCD(x.d, y.d)
         IN Norm(x.n * (y.d \div g) + y.n * (x.d \div g), (x.d \div g) * y.d)

Sub(x, y) == Add(x, Neg(y))

Mul(x, y) ==
    IF x.d = 0 \/ y.d = 0
    THEN IF IsNaN(x) \/ IsNaN(y) THEN NaN ELSE Rat(Sgn(x.n) * Sgn(y.n), 0)
    ELSE IF x.n = 0 \/ y.n = 0 THEN Zero
    ELSE LET g1 == GCD(Abs(x.n), y.d)
             g2 == GCD(Abs(y.n), x.d)
         IN Rat((x.n \div g1) * (y.n \div g2), (x.d \div g2) * (y.d \div g1))

\* 1/x: 1/0 is +Infinity, 1/Infinity is 0
Inv(x) ==
    IF IsNaN(x) THEN NaN
    ELSE IF x.d = 0 THEN Zero
    ELSE IF x.n = 0 THEN PosInf
    ELSE Rat(Sgn(x.n) * x.d, Abs(x.n))

Div(x, y) == Mul(x, Inv(y))

\* x <= y; FALSE when either side is NaN
Leq(x, y) ==
    IF IsNaN(x) \/ IsNaN(y) THEN FALSE
    ELSE IF x.d = 0 /\ y.d = 0 THEN x.n <= y.n
    ELSE LET g == GCD(x.d, y.d)
         IN x.n * (y.d \div g) <= y.n * (x.d \div g)

Less(x, y) == Leq(x, y) /\ x # y

\* np.maximum: NaN if either operand is NaN
Maximum(x, y) ==
    IF IsNaN(x) \/ IsNaN(y) THEN NaN
    ELSE IF Leq(x, y) THEN y ELSE x

RECURSIVE Pow(_, _)
Pow(x, k) == IF k = 0 THEN One ELSE Mul(x, Pow(x, k - 1))

\* np.exp on the grid of integer multiples of ln 2
Exp(x) ==
    IF IsNaN(x) THEN NaN
    ELSE IF x.n >= 0 THEN Pow(FromInt(2), x.n)
    ELSE Inv(Pow(FromInt(2), -x.n))

IsSquare(k) == \E m \in 0..k : m * m = k

\* np.sqrt: NaN below zero, the exact root on the grid
Sqrt(x) ==
    IF IsNaN(x) \/ x.n < 0 THEN NaN
    ELSE Rat(CHOOSE m \in 0..x.n : m * m = x.n, CHOOSE m \in 1..x.d : m * m = x.d)


\* ------------------------------------------------------------------- state
VARIABLES
    S, K, T, r, sigma, q, N, option_type,   \* arguments of the current or last invocation
    dt, u, d, p, discount,                   \* locals of american_option_binomial
    asset_prices, option_values, i,          \* lattice state and loop index
    pc, result, error,                       \* position and outcome of the invocation
    target,                                  \* module-level name the caller binds the result to
    globals,                                 \* module-level namespace of the notebook
    figure                                   \* points drawn by plot_binomial_tree

args == <<S, K, T, r, sigma, q, N, option_type>>

locals == <<dt, u, d, p, discount, asset_prices, option_values, i>>

vars == <<S, K, T, r, sigma, q, N, option_type, dt, u, d, p, discount,
          asset_prices, option_values, i, pc, result, error, target, globals, figure>>

\* a name with no binding
Unbound == Rat(0, -1)

OptionTypes == {"call", "put", "straddle"}

\* maturities for which T / N and sqrt(T / N) are exact on the grid
TimeGrid(n) ==
    {t \in -1..MaxT : n = 0 \/ (t % Abs(n) = 0 /\ (t * n < 0 \/ IsSquare(Abs(t) \div Abs(n))))}

ArgGrid ==
    {a \in [S : 0..MaxSpot, K : 0..MaxStrike, T : -1..MaxT, r : -1..MaxRate,
            sigma : SigmaGrid, q : -1..MaxRate, N : -1..MaxN, option_type : OptionTypes] :
        a.T \in TimeGrid(a.N)}

\* ------------------------------------------- american_option_binomial, by line
TimeStep(T_, N_) == Div(FromInt(T_), FromInt(N_))

UpFactor(sigma_, dt_) == Exp(Mul(FromInt(sigma_), Sqrt(dt_)))

DownFactor(u_) == Div(One, u_)

RiskNeutralP(r_, q_, dt_, u_, d_) ==
    Div(Sub(Exp(Mul(FromInt(r_ - q_), dt_)), d_), Sub(u_, d_))

\* DiscountFactor with the sign of the rate lost: exp(r * dt)
DiscountFactorCompounding(r_, dt_) == Exp(Mul(FromInt(r_), dt_))

DiscountFactor(r_, dt_) == Exp(Mul(FromInt(-r_), dt_))

TerminalAssetPrices(S_, u_, d_, N_) ==
    IF N_ < 0 THEN << >>
    ELSE [j \in 1..(N_ + 1) |-> Mul(Mul(FromInt(S_), Pow(u_, j - 1)), Pow(d_, N_ - (j - 1)))]

\* TerminalValues without the floor at zero (the signed payoff)
TerminalValuesUnfloored(option_type_, K_, prices) ==
    IF option_type_ = "call"
    THEN [j \in 1..Len(prices) |-> Sub(prices[j], FromInt(K_))]
    ELSE [j \in 1..Len(prices) |-> Sub(FromInt(K_), prices[j])]

TerminalValues(option_type_, K_, prices) ==
    IF option_type_ = "call"
    THEN [j \in 1..Len(prices) |-> Maximum(Sub(prices[j], FromInt(K_)), Zero)]
    ELSE [j \in 1..Len(prices) |-> Maximum(Sub(FromInt(K_), prices[j]), Zero)]

\* StepAssetPrices without the slice [:i+1]
StepAssetPricesUnsliced(prices, i_, u_) == [j \in 1..Len(prices) |-> Div(prices[j], u_)]

StepAssetPrices(prices, i_, u_) == [j \in 1..(i_ + 1) |-> Div(prices[j], u_)]

\* Continuation with the two children's weights exchanged
ContinuationWeightsSwapped(values, p_, discount_) ==
    [j \in 1..(Len(values) - 1) |->
        Mul(Add(Mul(p_, values[j]), Mul(Sub(One, p_), values[j + 1])), discount_)]

Continuation(values, p_, discount_) ==
    [j \in 1..(Len(values) - 1) |->
        Mul(Add(Mul(p_, values[j + 1]), Mul(Sub(One, p_), values[j])), discount_)]

\* Exercise with the put formula in both branches (a copy-paste slip)
ExercisePutInBothBranches(option_type_, K_, prices) ==
    [j \in 1..Len(prices) |-> Maximum(Sub(FromInt(K_), prices[j]), Zero)]

Exercise(option_type_, K_, prices) ==
    IF option_type_ = "call"
    THEN [j \in 1..Len(prices) |-> Maximum(Sub(prices[j], FromInt(K_)), Zero)]
    ELSE [j \in 1..Len(prices) |-> Maximum(Sub(FromInt(K_), prices[j]), Zero)]

\* EarlyExercise with np.minimum in place of np.maximum
EarlyExerciseMinimum(values, exercise) ==
    [j \in 1..Len(values) |->
        IF IsNaN(values[j]) \/ IsNaN(exercise[j]) THEN NaN
        ELSE IF Leq(values[j], exercise[j]) THEN values[j] ELSE exercise[j]]

\* EarlyExercise with the comparison left out
EarlyExerciseDropped(values, exercise) == values

EarlyExercise(values, exercise) ==
    [j \in 1..Len(values) |-> Maximum(values[j], exercise[j])]

\* lines 88-97 repeated for i, i-1, ..., 0
RECURSIVE BackwardInduction(_, _, _, _, _, _, _, _)
BackwardInduction(prices, values, i_, u_, p_, discount_, option_type_, K_) ==
    IF i_ < 0 THEN values
    ELSE BackwardInduction(
            StepAssetPrices(prices, i_, u_),
            EarlyExercise(Continuation(values, p_, discount_),
                          Exercise(option_type_, K_, StepAssetPrices(prices, i_, u_))),
            i_ - 1, u_, p_, discount_, option_type_, K_)

\* the value american_option_binomial returns for N >= 1 (for N <= 0 it raises)
american_option_binomial(S_, K_, T_, r_, sigma_, q_, N_, option_type_) ==
    IF N_ <= 0 THEN Unbound
    ELSE LET dt_ == TimeStep(T_, N_)
             u_ == UpFactor(sigma_, dt_)
             d_ == DownFactor(u_)
             prices == TerminalAssetPrices(S_, u_, d_, N_)
         IN BackwardInduction(prices, TerminalValues(option_type_, K_, prices), N_ - 1, u_,
                              RiskNeutralP(r_, q_, dt_, u_, d_), DiscountFactor(r_, dt_),
                              option_type_, K_)[1]

\* ------------------------------------------------------- the notebook's cells
\* plot_binomial_tree: the prices drawn at depth j
TreePrices(S_, u_, d_, j) ==
    [k \in 1..(j + 1) |-> Mul(Mul(FromInt(S_), Pow(u_, k - 1)), Pow(d_, j - (k - 1)))]

PlotDepth == 5

\* example parameters the first code cell may hold (at the money, no dividends)
ExampleGrid ==
    {[S |-> 2, K |-> 2, T |-> 1, r |-> 1, sigma |-> 1, q |-> 0, N |-> 1],
     [S |-> 2, K |-> 2, T |-> 2, r |-> 0, sigma |-> 2, q |-> 0, N |-> 2]}

ParamNames == {"S", "K", "T", "r", "sigma", "q", "N"}

\* heavily discounted at-the-money-forward inputs: r - q in {-1, 0, 1} keeps the
\* risk-neutral probability inside [0, 1] for every volatility offered
DiscountedArgs ==
    {a \in [S : 1..8, K : 1..2, T : 1..2, r : 2..3, sigma : SigmaGrid \ {0}, q : 1..4,
            N : 1..2, option_type : {"call", "put"}] :
        a.T = a.N /\ a.q \in (a.r - 1)..(a.r + 1)}

\* arguments of the calls made from a session next to the cells
NotebookArgs == {a \in ArgGrid : a.S = 2 /\ a.K = 2 /\ a.q = 0 /\ a.r >= 0}

Bind(ns, name, val) ==
    [x \in DOMAIN ns \cup {name} |-> IF x = name THEN val ELSE ns[x]]

\* ----------------------------------------------------------------- actions
Init ==
    /\ S = 0 /\ K = 0 /\ T = 0 /\ r = 0 /\ sigma = 0 /\ q = 0 /\ N = 0
    /\ option_type = "put"
    /\ dt = Unbound /\ u = Unbound /\ d = Unbound /\ p = Unbound /\ discount = Unbound
    /\ asset_prices = << >> /\ option_values = << >> /\ i = -1
    /\ pc = "idle" /\ result = Unbound /\ error = "none"
    /\ target = "none"
    /\ globals = [x \in {} |-> 0]
    /\ figure = << >>

\* Enter with the loop started at N instead of N - 1 (range(N, -1, -1))
EnterLoopFromN(a, tgt) ==
    /\ pc = "idle"
    /\ S' = a.S /\ K' = a.K /\ T' = a.T /\ r' = a.r /\ sigma' = a.sigma /\ q' = a.q
    /\ N' = a.N /\ option_type' = a.option_type
    /\ target' = tgt
    /\ result' = Unbound
    /\ IF a.N = 0
       THEN /\ pc' = "raised" /\ error' = "ZeroDivisionError"
            /\ dt' = Unbound /\ u' = Unbound /\ d' = Unbound /\ p' = Unbound
            /\ discount' = Unbound
            /\ asset_prices' = << >> /\ option_values' = << >> /\ i' = -1
       ELSE LET dt_ == TimeStep(a.T, a.N)
                u_ == UpFactor(a.sigma, dt_)
                d_ == DownFactor(u_)
                prices == TerminalAssetPrices(a.S, u_, d_, a.N)
            IN /\ pc' = "loop" /\ error' = "none"
               /\ dt' = dt_ /\ u' = u_ /\ d' = d_
               /\ p' = RiskNeutralP(a.r, a.q, dt_, u_, d_)
               /\ discount' = DiscountFactor(a.r, dt_)
               /\ asset_prices' = prices
               /\ option_values' = TerminalValues(a.option_type, a.K, prices)
               /\ i' = a.N

\* entry with arguments a, then lines 72-85: the derived quantities and the terminal nodes
Enter(a, tgt) ==
    /\ pc = "idle"
    /\ S' = a.S /\ K' = a.K /\ T' = a.T /\ r' = a.r /\ sigma' = a.sigma /\ q' = a.q
    /\ N' = a.N /\ option_type' = a.option_type
    /\ target' = tgt
    /\ result' = Unbound
    /\ IF a.N = 0
       THEN /\ pc' = "raised" /\ error' = "ZeroDivisionError"
            /\ dt' = Unbound /\ u' = Unbound /\ d' = Unbound /\ p' = Unbound
            /\ discount' = Unbound
            /\ asset_prices' = << >> /\ option_values' = << >> /\ i' = -1
       ELSE LET dt_ == TimeStep(a.T, a.N)
                u_ == UpFactor(a.sigma, dt_)
                d_ == DownFactor(u_)
                prices == TerminalAssetPrices(a.S, u_, d_, a.N)
            IN /\ pc' = "loop" /\ error' = "none"
               /\ dt' = dt_ /\ u' = u_ /\ d' = d_
               /\ p' = RiskNeutralP(a.r, a.q, dt_, u_, d_)
               /\ discount' = DiscountFactor(a.r, dt_)
               /\ asset_prices' = prices
               /\ option_values' = TerminalValues(a.option_type, a.K, prices)
               /\ i' = a.N - 1

Call ==
    /\ pc = "idle"
    /\ \E a \in ArgGrid : Enter(a, "none")
    /\ UNCHANGED <<globals, figure>>

\* BackwardStep as it would run if u were not a local: the module-level u is
\* used when the plot cell has bound it
BackwardStepGlobalU ==
    /\ pc = "loop" /\ i >= 0
    /\ LET u_ == IF "u" \in DOMAIN globals THEN globals["u"] ELSE u
           prices == StepAssetPrices(asset_prices, i, u_)
           cont == Continuation(option_values, p, discount)
       IN /\ asset_prices' = prices
          /\ option_values' = EarlyExercise(cont, Exercise(option_type, K, prices))
    /\ i' = i - 1
    /\ UNCHANGED <<args, dt, u, d, p, discount, pc, result, error, target, globals, figure>>

\* one iteration of the backward induction, lines 88-97
BackwardStep ==
    /\ pc = "loop" /\ i >= 0
    /\ LET prices == StepAssetPrices(asset_prices, i, u)
           cont == Continuation(option_values, p, discount)
       IN /\ asset_prices' = prices
          /\ option_values' = EarlyExercise(cont, Exercise(option_type, K, prices))
    /\ i' = i - 1
    /\ UNCHANGED <<args, dt, u, d, p, discount, pc, result, error, target, globals, figure>>

\* line 99, and the caller's assignment of the returned value
Return ==
    /\ pc = "loop" /\ i < 0
    /\ IF Len(option_values) = 0
       THEN /\ pc' = "raised" /\ error' = "IndexError" /\ result' = Unbound
            /\ globals' = globals
       ELSE /\ pc' = "returned" /\ error' = "none" /\ result' = option_values[1]
            /\ globals' = IF target = "none" THEN globals
                          ELSE Bind(globals, target, option_values[1])
    /\ dt' = Unbound /\ u' = Unbound /\ d' = Unbound /\ p' = Unbound /\ discount' = Unbound
    /\ asset_prices' = << >> /\ option_values' = << >> /\ i' = -1
    /\ UNCHANGED <<args, target, figure>>

\* the caller has taken the outcome (a value or an exception); the frame is gone
Finish ==
    /\ pc \in {"returned", "raised"}
    /\ pc' = "idle"
    /\ S' = 0 /\ K' = 0 /\ T' = 0 /\ r' = 0 /\ sigma' = 0 /\ q' = 0 /\ N' = 0
    /\ option_type' = "put"
    /\ result' = Unbound /\ error' = "none" /\ target' = "none"
    /\ UNCHANGED <<locals, globals, figure>>

Next == Call \/ BackwardStep \/ Return \/ Finish

\* the example cell's assignments S = ..., K = ..., ..., N = ...
AssignExample ==
    /\ pc = "idle"
    /\ \E e \in ExampleGrid :
          globals' = [x \in DOMAIN globals \cup ParamNames |->
                         IF x \in ParamNames THEN e[x] ELSE globals[x]]
    /\ UNCHANGED <<args, locals, pc, result, error, target, figure>>

GlobalArgs(kind) ==
    [S |-> globals["S"], K |-> globals["K"], T |-> globals["T"], r |-> globals["r"],
     sigma |-> globals["sigma"], q |-> globals["q"], N |-> globals["N"], option_type |-> kind]

\* price_put = american_option_binomial(S, K, T, r, sigma, q, N, option_type='put')
PricePut ==
    /\ pc = "idle" /\ ParamNames \subseteq DOMAIN globals
    /\ Enter(GlobalArgs("put"), "price_put")
    /\ UNCHANGED <<globals, figure>>

\* price_call = american_option_binomial(S, K, T, r, sigma, q, N, option_type='call')
PriceCall ==
    /\ pc = "idle" /\ ParamNames \subseteq DOMAIN globals
    /\ Enter(GlobalArgs("call"), "price_call")
    /\ UNCHANGED <<globals, figure>>

\* the plot cell: module-level dt, u, d, then plot_binomial_tree(S, u, d, N=5)
PlotCell ==
    /\ pc = "idle" /\ ParamNames \subseteq DOMAIN globals
    /\ LET dt_ == TimeStep(globals["T"], globals["N"])
           u_ == UpFactor(globals["sigma"], dt_)
           d_ == DownFactor(u_)
       IN /\ globals' = Bind(Bind(Bind(globals, "dt", dt_), "u", u_), "d", d_)
          /\ figure' = [j \in 1..(PlotDepth + 1) |-> TreePrices(globals["S"], u_, d_, j - 1)]
    /\ UNCHANGED <<args, locals, pc, result, error, target>>

\* a call typed into the session
SessionCall ==
    /\ pc = "idle"
    /\ \E a \in NotebookArgs : Enter(a, "none")
    /\ UNCHANGED <<globals, figure>>

\* a call with heavily discounted inputs
DiscountedCall ==
    /\ pc = "idle"
    /\ \E a \in DiscountedArgs : Enter(a, "none")
    /\ UNCHANGED <<globals, figure>>

NextDiscounted == DiscountedCall \/ BackwardStep \/ Return \/ Finish

SpecDiscounted == Init /\ [][NextDiscounted]_vars

NextNotebook ==
    \/ AssignExample \/ PricePut \/ PriceCall \/ PlotCell \/ SessionCall
    \/ BackwardStep \/ Return \/ Finish

SpecNotebook == Init /\ [][NextNotebook]_vars

Spec == Init /\ [][Next]_vars

\* invocations followed to their end: every step count and maturity of the grid,
\* both kinds, a worthless and a positive spot
FairArgs ==
    {a \in ArgGrid : /\ a.S \in {0, 2} /\ a.K = 1 /\ a.q = 0 /\ a.r \in {0, 1}
                     /\ a.option_type \in {"call", "put"}}

FairCall ==
    /\ pc = "idle"
    /\ \E a \in FairArgs : Enter(a, "none")
    /\ UNCHANGED <<globals, figure>>

NextFair == FairCall \/ BackwardStep \/ Return \/ Finish

\* the control part of one pass through the for statement of line 88; among the
\* steps of NextFair only BackwardStep is such a step
LoopIteration == pc = "loop" /\ i >= 0 /\ pc' = "loop" /\ i' = i - 1

\* the interpreter runs a started invocation on: an enabled iteration or return
\* is eventually taken (single thread, no suspension points)
SpecFair == Init /\ [][NextFair]_vars /\ WF_<<pc, i>>(LoopIteration) /\ WF_vars(Return)


\* =================================================================== claims

\* the preconditions of the contract: positive spot, strike, maturity and steps,
\* a recognised kind, and positive volatility
ValidInputs == S > 0 /\ K > 0 /\ T > 0 /\ N >= 1 /\ option_type \in {"call", "put"}

ValidArgs == ValidInputs /\ sigma > 0

\* immediate-exercise value at the spot price
SpotIntrinsic ==
    IF option_type = "call" THEN Maximum(FromInt(S - K), Zero)
    ELSE Maximum(FromInt(K - S), Zero)

\* C1: for valid parameters the returned price of a put is at least
\* max(strike - spot, 0) and the returned price of a call is at least
\* max(spot - strike, 0).
C1_IntrinsicBound ==
    (pc = "returned" /\ ValidArgs) => Leq(SpotIntrinsic, result)

\* C3: an invocation whose kind is neither call nor put ends in an error: it
\* never returns a price (the price of a call or of a put), here for inputs
\* that are valid in every other respect.
C3_UnknownKindFails ==
    (option_type \notin {"call", "put"} /\ S > 0 /\ K > 0 /\ T > 0 /\ N >= 1 /\ sigma > 0)
        => pc # "returned"

\* the payoff at maturity of the deterministic asset S * exp((r - q) * T),
\* discounted by exp(-r * T)
DeterministicPayoff ==
    LET dt_ == TimeStep(T, N)
        growth == Pow(Exp(Mul(FromInt(r - q), dt_)), N)
        ST == Mul(FromInt(S), growth)
        payoff == IF option_type = "call" THEN Maximum(Sub(ST, FromInt(K)), Zero)
                  ELSE Maximum(Sub(FromInt(K), ST), Zero)
    IN Mul(Pow(DiscountFactor(r, dt_), N), payoff)

\* C4: with volatility 0 and otherwise valid inputs, the invocation does not
\* fail and returns the discounted deterministic payoff.
C4_ZeroVolatility ==
    (sigma = 0 /\ ValidInputs /\ pc \in {"returned", "raised"})
        => (pc = "returned" /\ result = DeterministicPayoff)

\* C5: an invocation that returns a value returns a finite non-negative
\* price, and was given positive spot, strike, maturity and steps (any other
\* invocation ends in an error).
C5_PriceOrError ==
    (pc = "returned")
        => /\ IsFinite(result) /\ Leq(Zero, result)
           /\ S > 0 /\ K > 0 /\ T > 0 /\ N > 0

\* C6: for valid parameters every option value held at every node of every
\* step, terminal step included, is non-negative, and so is the returned price.
C6_NonNegative ==
    ValidArgs =>
        /\ pc = "loop" => \A j \in 1..Len(option_values) : Leq(Zero, option_values[j])
        /\ pc = "returned" => Leq(Zero, result)

\* a backward step has run, and the discounted expectation of the values it
\* left is negative at the root (p outside [0, 1])
C6_Witness ==
    /\ ValidArgs /\ pc = "loop" /\ i = 0 /\ N = 2
    /\ Less(Continuation(option_values, p, discount)[1], Zero)


\* the same backward induction with the early-exercise comparison disabled:
\* each node value is the discounted expectation of its two children
RECURSIVE ExpectationOnly(_, _, _, _)
ExpectationOnly(values, p_, discount_, steps) ==
    IF steps = 0 THEN values
    ELSE ExpectationOnly(Continuation(values, p_, discount_), p_, discount_, steps - 1)

EuropeanPrice ==
    LET dt_ == TimeStep(T, N)
        u_ == UpFactor(sigma, dt_)
        d_ == DownFactor(u_)
        prices == TerminalAssetPrices(S, u_, d_, N)
    IN ExpectationOnly(TerminalValues(option_type, K, prices),
                       RiskNeutralP(r, q, dt_, u_, d_), DiscountFactor(r, dt_), N)[1]

\* the risk-neutral probability of the current or last invocation
ProbabilityOfArgs ==
    LET dt_ == TimeStep(T, N)
        u_ == UpFactor(sigma, dt_)
    IN RiskNeutralP(r, q, dt_, u_, DownFactor(u_))

ProbabilityInUnitInterval == Leq(Zero, ProbabilityOfArgs) /\ Leq(ProbabilityOfArgs, One)

\* C2 as stated: for every valid input, p outside [0, 1] included, the returned
\* price is at least the price of the induction without early exercise.
C2_AmericanAtLeastEuropean_AnyP ==
    (pc = "returned" /\ ValidArgs) => Leq(EuropeanPrice, result)

\* C2 amended: for valid inputs whose risk-neutral probability p lies in
\* [0, 1], the returned price is at least the price of the same induction
\* with the early-exercise comparison disabled.
C2_AmericanAtLeastEuropean ==
    (pc = "returned" /\ ValidArgs /\ ProbabilityInUnitInterval)
        => Leq(EuropeanPrice, result)

\* a two-step put with p in [0, 1] returned strictly above its European price
C2_Witness ==
    /\ pc = "returned" /\ ValidArgs /\ ProbabilityInUnitInterval
    /\ N = 2 /\ option_type = "put" /\ Less(Zero, EuropeanPrice)
    /\ Less(EuropeanPrice, result)

\* C7 as stated: with dividend yield 0 and positive rate the American call
\* price equals the European call price and the American put price is
\* strictly greater than the European put price.
C7_NoDividend_Strict ==
    (pc = "returned" /\ ValidArgs /\ q = 0 /\ r > 0)
        => IF option_type = "call" THEN result = EuropeanPrice
           ELSE Less(EuropeanPrice, result)

\* C7 amended: with dividend yield 0, positive rate and p in [0, 1], the
\* American call price equals the European call price and the American put
\* price is greater than or equal to the European put price.
C7_NoDividend ==
    (pc = "returned" /\ ValidArgs /\ q = 0 /\ r > 0 /\ ProbabilityInUnitInterval)
        => IF option_type = "call" THEN result = EuropeanPrice
           ELSE Leq(EuropeanPrice, result)

\* a two-step in-the-money call without dividends has been priced
C7_Witness ==
    /\ pc = "returned" /\ ValidArgs /\ q = 0 /\ r > 0 /\ ProbabilityInUnitInterval
    /\ N = 2 /\ option_type = "call" /\ S > K /\ Less(Zero, result)

\* C8: with every other parameter fixed, the returned price does not decrease
\* when the (positive) volatility increases.
C8_MonotoneInVolatility ==
    (pc = "returned" /\ ValidArgs)
        => \A v \in SigmaGrid :
              v >= sigma =>
                 Leq(result, american_option_binomial(S, K, T, r, v, q, N, option_type))

\* C10: after backward step i has run, the asset price held for node j is the
\* forward-formula price spot * u^j * d^(i-j) that the tree plot draws at depth i.
C10_AssetPricesMatchTree ==
    (pc = "loop" /\ ValidArgs)
        => asset_prices = TreePrices(S, u, d, i + 1)


ModuleLevelNames == ParamNames \cup {"dt", "u", "d"}

\* a step taken by american_option_binomial: its entry, an iteration or its return
FunctionStep == pc = "loop" \/ (pc = "idle" /\ pc' # "idle")

\* C9: price is a pure function. A step of the function leaves every
\* module-level variable S, K, T, r, sigma, q, N, dt, u, d as it was (bound or
\* not, and its value) and leaves its own arguments unchanged once entered; and
\* whatever calls and cells ran before, the value returned is the value the
\* function of the eight arguments alone gives.
C9_Pure ==
    /\ [][FunctionStep =>
            /\ \A x \in ModuleLevelNames :
                  /\ (x \in DOMAIN globals') <=> (x \in DOMAIN globals)
                  /\ (x \in DOMAIN globals) => globals'[x] = globals[x]
            /\ pc = "loop" => args' = args]_vars
    /\ [](pc = "returned"
            => result = american_option_binomial(S, K, T, r, sigma, q, N, option_type))

\* a session call has returned while the module-level u, bound by the plot
\* cell, differs from the u of the call
C9_Witness ==
    /\ pc = "returned" /\ ValidArgs /\ target = "none" /\ N = 2
    /\ "u" \in DOMAIN globals
    /\ globals["u"] # UpFactor(sigma, TimeStep(T, N))
    /\ IsFinite(result)

\* the payoff formula of the terminal nodes, at asset price x
Intrinsic(x) ==
    IF option_type = "call" THEN Maximum(Sub(x, FromInt(K)), Zero)
    ELSE Maximum(Sub(FromInt(K), x), Zero)

\* C11: a backward step gives node j the value
\* max(disc * (p * V[j+1] + (1 - p) * V[j]), intrinsic(A[j])), where V is the
\* value sequence before the step (V[j+1] the up child, V[j] the down child)
\* and A[j] the asset price the step recomputed for node j.
C11_NodeRecurrence ==
    [][(pc = "loop" /\ pc' = "loop" /\ ValidArgs) =>
          \A j \in 1..(i + 1) :
             option_values'[j] =
                Maximum(Mul(Add(Mul(p, option_values[j + 1]),
                                Mul(Sub(One, p), option_values[j])), discount),
                        Intrinsic(asset_prices'[j]))]_vars

\* the first of two backward steps has run on a lattice whose two lower
\* terminal values differ, and left a positive value at the lower node
C11_Witness ==
    /\ pc = "loop" /\ ValidArgs /\ N = 2 /\ i = 0
    /\ Len(option_values) = 2
    /\ option_values[1] # option_values[2]
    /\ Less(Zero, option_values[1])

\* C12: between the steps of an invocation with steps >= 1 the asset-price
\* sequence and the option-value sequence have the same length: steps + 1
\* after terminal construction and i + 1 once backward step i has completed
\* (the loop index then stands at i - 1), so each step leaves a pair one
\* element shorter than the pair it consumed.
C12_EqualLengths ==
    (pc = "loop" /\ N >= 1)
        => /\ Len(asset_prices) = Len(option_values)
           /\ Len(option_values) = i + 2
           /\ i \in -1..(N - 1)

\* both backward steps of a two-step invocation have completed
C12_Witness ==
    /\ pc = "loop" /\ N = 2 /\ i = -1
    /\ Len(asset_prices) = 1 /\ Len(option_values) = 1

\* C13: for steps >= 1 the backward induction terminates. The loop starts at
\* index steps - 1, every iteration lowers the index by exactly one and runs
\* only for an index >= 0 (so there are exactly `steps` iterations, in strictly
\* decreasing order), an iteration computes its values from the values the
\* iteration before it left, the loop is left at index -1 with exactly one node,
\* whose value is returned unchanged, and every started invocation does return.
C13_Terminates ==
    /\ [][(pc = "idle" /\ pc' = "loop" /\ N' >= 1) => i' = N' - 1]_vars
    /\ [][(pc = "loop" /\ pc' = "loop") => (i >= 0 /\ i' = i - 1)]_vars
    /\ [][(pc = "loop" /\ pc' = "loop") =>
            option_values' = EarlyExercise(Continuation(option_values, p, discount),
                                           Exercise(option_type, K, asset_prices'))]_vars
    /\ [][(pc = "loop" /\ pc' # "loop" /\ N >= 1) =>
            /\ i = -1 /\ Len(option_values) = 1
            /\ pc' = "returned" /\ result' = option_values[1]]_vars
    /\ (pc = "loop" /\ N >= 1) ~> (pc = "returned")

\* a two-step invocation with valid arguments has returned a finite price
C13_Witness ==
    /\ pc = "returned" /\ ValidArgs /\ N = 2 /\ IsFinite(result)

\* C14: right after the terminal construction (index steps - 1, no iteration
\* run yet) there are exactly steps + 1 nodes; node j has asset price
\* spot * u^j * d^(steps - j) and option value max(price_j - strike, 0) for a
\* call, max(strike - price_j, 0) for a put; a node that is not in the money
\* has value exactly 0 and no value is negative.
C14_TerminalNodes ==
    (pc = "loop" /\ i = N - 1 /\ ValidInputs) =>
        /\ Len(asset_prices) = N + 1
        /\ Len(option_values) = N + 1
        /\ \A j \in 0..N :
              LET x == Mul(Mul(FromInt(S), Pow(u, j)), Pow(d, N - j))
                  out == IF option_type = "call" THEN Leq(x, FromInt(K))
                         ELSE Leq(FromInt(K), x)
              IN /\ asset_prices[j + 1] = x
                 /\ option_values[j + 1] = Intrinsic(x)
                 /\ Leq(Zero, option_values[j + 1])
                 /\ out => option_values[j + 1] = Zero

\* terminal nodes of a two-step tree, one out of the money and one in the money
C14_Witness ==
    /\ pc = "loop" /\ i = N - 1 /\ ValidArgs /\ N = 2
    /\ Len(option_values) = 3
    /\ \E j, k \in 1..3 :
          /\ option_values[j] = Zero
          /\ Less(asset_prices[j], FromInt(K)) \/ Less(FromInt(K), asset_prices[j])
          /\ Less(Zero, option_values[k])

\* C15: for positive spot and strike, steps >= 1, rate >= 0, dividend yield >= 0
\* and a risk-neutral probability in [0, 1], at every step every node's option
\* value is at most the strike for a put and at most the node's forward-formula
\* asset price spot * u^j * d^(step - j) for a call; the returned put price is at
\* most the strike and the returned call price at most the spot.
C15_UpperBound ==
    (/\ S > 0 /\ K > 0 /\ N >= 1 /\ r >= 0 /\ q >= 0
     /\ option_type \in {"call", "put"}
     /\ ProbabilityInUnitInterval) =>
        /\ pc = "loop" =>
              \A j \in 1..Len(option_values) :
                 IF option_type = "put"
                 THEN Leq(option_values[j], FromInt(K))
                 ELSE Leq(option_values[j], TreePrices(S, u, d, i + 1)[j])
        /\ pc = "returned" =>
              IF option_type = "put" THEN Leq(result, FromInt(K))
              ELSE Leq(result, FromInt(S))

\* a positive rate, probability in [0, 1]: the root of a two-step tree has been
\* valued and is worth something
C15_Witness ==
    /\ pc = "loop" /\ i = -1 /\ N = 2
    /\ S > 0 /\ K > 0 /\ r > 0 /\ q >= 0 /\ option_type \in {"call", "put"}
    /\ ProbabilityInUnitInterval
    /\ Len(option_values) = 1
    /\ Less(Zero, option_values[1])
=============================================================================
